---------------------------- MODULE Spec2Model ----------------------------
(***************************************************************************)
(* rasm: a decoder for a subset of the WebAssembly binary format            *)
(* (src/src/module.rs) and a stack interpreter for one decoded function     *)
(* body (src/src/instance.rs), driven as in src/src/main.rs:                *)
(*   Module::from_file -> Instance::new -> Exports::get_function ->         *)
(*   Function::call.                                                        *)
(*                                                                          *)
(* Bytes are naturals 0..255, a byte slice (&[u8]) is a sequence whose head *)
(* is the cursor.  A Result is a record [kind, msg, val, rest]: kind "ok",  *)
(* "err" (an Err returned with `?`/bail!) or "panic" (unwrap on None, an    *)
(* index out of bounds, a read past the end of a bytes::Buf, an arithmetic  *)
(* overflow in a build with overflow checks).                               *)
(* An instruction is a tuple <<op, immediates...>>.                         *)
(***************************************************************************)
EXTENDS Integers, Sequences, FiniteSets, TLC

VARIABLES
    overflow_checks, \* build profile: TRUE = debug (overflow panics), FALSE = release (wraps)
    contents,        \* from_file: the unread rest of the module's bytes
    pc,              \* position of the program
    failure,         \* [kind, msg] of the failure that ended the run, kind "none" while running
    func_types,      \* from_file: the type table
    funcs,           \* Module.funcs / Exports.functions
    exports,         \* Module.exports / Exports.exports
    section_end,     \* history: the bytes that follow the declared payload of the last section
    n,               \* parse_code_section: declared number of entries
    i,               \* parse_code_section: index of the entry being decoded
    entry,           \* parse_code_section: func_len, num_locals and (history) the cursor
                     \* after func_len and after the local declarations
    b,               \* parse_code_section: the bytes handed to parse_instructions
    code,            \* parse_instructions: the unread rest of b
    result,          \* parse_instructions: the instructions decoded so far
    name,            \* get_function: the name asked for
    body,            \* Function.body
    locals,          \* call: the argument values
    stack,           \* call: the operand stack
    ip,              \* call: index (1-based) of the next instruction of body
    retval           \* call: the value returned

vars == <<overflow_checks, contents, pc, failure, func_types, funcs, exports,
          section_end, n, i, entry, b, code, result, name, body, locals,
          stack, ip, retval>>

decVars  == <<func_types, section_end, n, i, entry, b, code, result>>
codeVars == <<n, i, entry, b, code, result>>
execVars == <<name, body, locals, stack, ip, retval>>

---------------------------------------------------------------------------
(* Bounds of the model *)

\* the longest argument list handed to call
MaxArgs == 2

---------------------------------------------------------------------------
(* Sequences and results *)

Min(x, y) == IF x <= y THEN x ELSE y

\* bytes::Buf::take(contents, k) followed by dst.put(&mut t): copies at most
\* k bytes, fewer when the slice is shorter
Take(s, k) == SubSeq(s, 1, Min(k, Len(s)))

\* Take::into_inner after the copy: the slice past the bytes copied
Drop(s, k) == SubSeq(s, Min(k, Len(s)) + 1, Len(s))

RECURSIVE Repeat(_, _)
Repeat(v, k) == IF k = 0 THEN <<>> ELSE <<v>> \o Repeat(v, k - 1)

Ok(v, rest) == [kind |-> "ok", msg |-> "", val |-> v, rest |-> rest]
Err(m)      == [kind |-> "err", msg |-> m, val |-> <<>>, rest |-> <<>>]
Panic(m)    == [kind |-> "panic", msg |-> m, val |-> <<>>, rest |-> <<>>]

NoFailure  == [kind |-> "none", msg |-> ""]
Failure(r) == [kind |-> r.kind, msg |-> r.msg]

---------------------------------------------------------------------------
(* 32-bit arithmetic.  TLC's integers are 32-bit themselves, so the wrapped *)
(* results are computed without ever leaving the i32 range.                 *)

MaxI32 == 2147483647
MinI32 == (-MaxI32) - 1

Abs(x) == IF x < 0 THEN -x ELSE x

\* does l + r leave the i32 range
AddOverflows(l, r) ==
    \/ r > 0 /\ l > MaxI32 - r
    \/ r < 0 /\ l < MinI32 - r

\* l + r modulo 2^32, as a signed 32-bit value
WrappingAdd(l, r) ==
    IF r > 0 /\ l > MaxI32 - r
    THEN ((l - MaxI32) - 1) + ((r - MaxI32) - 1)
    ELSE IF r < 0 /\ l < MinI32 - r
    THEN ((l + MaxI32) + 1) + ((r + MaxI32) + 1)
    ELSE l + r

\* does l * r leave the i32 range
MulOverflows(l, r) ==
    IF l = 0 \/ r = 0 THEN FALSE
    ELSE IF l = MinI32 THEN r # 1
    ELSE IF r = MinI32 THEN l # 1
    ELSE IF (l > 0) = (r > 0)
    THEN Abs(l) > MaxI32 \div Abs(r)
    ELSE IF Abs(r) = 1 THEN FALSE
    ELSE Abs(l) > (MaxI32 \div Abs(r))
                  + (IF MaxI32 % Abs(r) = Abs(r) - 1 THEN 1 ELSE 0)

\* i32::saturating_mul
SaturatingMul(l, r) ==
    IF MulOverflows(l, r)
    THEN IF (l > 0) = (r > 0) THEN MaxI32 ELSE MinI32
    ELSE l * r

\* the four bytes, least significant first, of x's two's complement
Limbs(x) ==
    LET y == IF x < 0 THEN (x + MaxI32) + 1 ELSE x
    IN  <<y % 256, (y \div 256) % 256, (y \div 65536) % 256,
          ((y \div 16777216) % 256) + (IF x < 0 THEN 128 ELSE 0)>>

\* the signed 32-bit value of four bytes, least significant first
FromLimbs(l) ==
    (IF l[4] >= 128 THEN (l[4] - 256) * 16777216 ELSE l[4] * 16777216)
    + l[3] * 65536 + l[2] * 256 + l[1]

\* l * r modulo 2^32, as a signed 32-bit value (schoolbook product of the
\* bytes, keeping the low four)
WrappingMul(l, r) ==
    LET x  == Limbs(l)
        y  == Limbs(r)
        s1 == x[1] * y[1]
        s2 == x[1] * y[2] + x[2] * y[1] + (s1 \div 256)
        s3 == x[1] * y[3] + x[2] * y[2] + x[3] * y[1] + (s2 \div 256)
        s4 == x[1] * y[4] + x[2] * y[3] + x[3] * y[2] + x[4] * y[1] + (s3 \div 256)
    IN  FromLimbs(<<s1 % 256, s2 % 256, s3 % 256, s4 % 256>>)

---------------------------------------------------------------------------
(* Primitive decoders *)

\* leb128::read::unsigned: 7 value bits per byte, least significant group
\* first, the high bit set on every byte but the last; running out of bytes
\* is an Err.  (The crate reports Overflow at the tenth byte; the streams of
\* this model hold no varint longer than two bytes.)
RECURSIVE ReadUnsignedFrom(_, _, _)
ReadUnsignedFrom(s, mult, acc) ==
    IF s = <<>> THEN Err("leb128: unexpected end of input")
    ELSE LET r == acc + (Head(s) % 128) * mult
         IN  IF Head(s) < 128 THEN Ok(r, Tail(s))
             ELSE ReadUnsignedFrom(Tail(s), mult * 128, r)

ReadUnsigned(s) == ReadUnsignedFrom(s, 1, 0)

\* leb128::read::signed: as unsigned, then sign-extended from bit 6 of the
\* last byte
RECURSIVE ReadSignedFrom(_, _, _)
ReadSignedFrom(s, mult, acc) ==
    IF s = <<>> THEN Err("leb128: unexpected end of input")
    ELSE LET r == acc + (Head(s) % 128) * mult
         IN  IF Head(s) < 128
             THEN Ok(IF (Head(s) \div 64) % 2 = 1 THEN r - mult * 128 ELSE r, Tail(s))
             ELSE ReadSignedFrom(Tail(s), mult * 128, r)

ReadSigned(s) == ReadSignedFrom(s, 1, 0)

\* Module::parse_val: one type tag; get_u8 on an empty slice panics
parse_val(c) ==
    IF c = <<>> THEN Panic("get_u8: no byte left")
    ELSE CASE Head(c) = 127 -> Ok("I32", Tail(c))
           [] Head(c) = 126 -> Ok("I64", Tail(c))
           [] Head(c) = 125 -> Ok("F32", Tail(c))
           [] Head(c) = 124 -> Ok("F64", Tail(c))
           [] Head(c) = 123 -> Ok("V128", Tail(c))
           [] Head(c) = 112 -> Ok("FuncRef", Tail(c))
           [] Head(c) = 111 -> Ok("ExternRef", Tail(c))
           [] OTHER -> Err("unknown type")

\* String::from_utf8 accepts exactly the well-formed UTF-8 byte sequences
RECURSIVE IsUtf8(_)
IsUtf8(s) ==
    LET cont(k) == k <= Len(s) /\ s[k] >= 128 /\ s[k] <= 191
        from(k) == SubSeq(s, k, Len(s))
    IN  IF s = <<>> THEN TRUE
        ELSE IF s[1] <= 127 THEN IsUtf8(from(2))
        ELSE IF s[1] >= 194 /\ s[1] <= 223 THEN cont(2) /\ IsUtf8(from(3))
        ELSE IF s[1] = 224
             THEN Len(s) >= 2 /\ s[2] >= 160 /\ s[2] <= 191 /\ cont(3) /\ IsUtf8(from(4))
        ELSE IF s[1] = 237
             THEN Len(s) >= 2 /\ s[2] >= 128 /\ s[2] <= 159 /\ cont(3) /\ IsUtf8(from(4))
        ELSE IF s[1] >= 225 /\ s[1] <= 239 THEN cont(2) /\ cont(3) /\ IsUtf8(from(4))
        ELSE IF s[1] = 240
             THEN Len(s) >= 2 /\ s[2] >= 144 /\ s[2] <= 191 /\ cont(3) /\ cont(4)
                  /\ IsUtf8(from(5))
        ELSE IF s[1] = 244
             THEN Len(s) >= 2 /\ s[2] >= 128 /\ s[2] <= 143 /\ cont(3) /\ cont(4)
                  /\ IsUtf8(from(5))
        ELSE IF s[1] >= 241 /\ s[1] <= 243
             THEN cont(2) /\ cont(3) /\ cont(4) /\ IsUtf8(from(5))
        ELSE FALSE

---------------------------------------------------------------------------
(* Section decoders decoded in one step (module.rs) *)

MAGIC   == <<0, 97, 115, 109>>
VERSION == <<1, 0, 0, 0>>

\* the loops `for _ in 0..len { push(parse_val(contents)?) }`
RECURSIVE ParseVals(_, _, _)
ParseVals(c, k, acc) ==
    IF k = 0 THEN Ok(acc, c)
    ELSE LET v == parse_val(c)
         IN  IF v.kind # "ok" THEN v
             ELSE ParseVals(v.rest, k - 1, Append(acc, v.val))

\* the loop over the entries of the type section
RECURSIVE ParseFuncTypes(_, _, _)
ParseFuncTypes(c, k, acc) ==
    IF k = 0 THEN Ok(acc, c)
    ELSE IF c = <<>> THEN Panic("get_u8: no byte left")
    ELSE IF Head(c) # 96
    THEN Err("malformed module, expected start of functype (0x60)")
    ELSE LET params_len == ReadUnsigned(Tail(c))
         IN  IF params_len.kind # "ok" THEN params_len
         ELSE LET params == ParseVals(params_len.rest, params_len.val, <<>>)
         IN  IF params.kind # "ok" THEN params
         ELSE LET results_len == ReadUnsigned(params.rest)
         IN  IF results_len.kind # "ok" THEN results_len
         ELSE LET results == ParseVals(results_len.rest, results_len.val, <<>>)
         IN  IF results.kind # "ok" THEN results
         ELSE ParseFuncTypes(results.rest, k - 1,
                  Append(acc, [params |-> params.val, results |-> results.val]))

\* Module::parse_type_section: the section's length is read and not used
parse_type_section(c) ==
    LET section_len == ReadUnsigned(c)
    IN  IF section_len.kind # "ok" THEN section_len
    ELSE LET types_len == ReadUnsigned(section_len.rest)
    IN  IF types_len.kind # "ok" THEN types_len
    ELSE ParseFuncTypes(types_len.rest, types_len.val, <<>>)

\* the loop over the entries of the function section
RECURSIVE ParseFuncs(_, _, _, _)
ParseFuncs(c, k, types, acc) ==
    IF k = 0 THEN Ok(acc, c)
    ELSE LET idx == ReadUnsigned(c)
         IN  IF idx.kind # "ok" THEN idx
         ELSE IF idx.val >= Len(types) THEN Err("Unable to find function type")
         ELSE ParseFuncs(idx.rest, k - 1, types,
                  Append(acc, [ty |-> types[idx.val + 1], locals |-> <<>>, body |-> <<>>]))

\* Module::parse_function_section
parse_function_section(c, types) ==
    LET section_len == ReadUnsigned(c)
    IN  IF section_len.kind # "ok" THEN section_len
    ELSE LET function_len == ReadUnsigned(section_len.rest)
    IN  IF function_len.kind # "ok" THEN function_len
    ELSE ParseFuncs(function_len.rest, function_len.val, types, <<>>)

\* the loop over the entries of the export section
RECURSIVE ParseExports(_, _, _)
ParseExports(c, k, acc) ==
    IF k = 0 THEN Ok(acc, c)
    ELSE LET len == ReadUnsigned(c)
         IN  IF len.kind # "ok" THEN len
         ELSE LET nm   == Take(len.rest, len.val)
                  rest == Drop(len.rest, len.val)
         IN  IF ~IsUtf8(nm) THEN Err("invalid utf-8 sequence")
         ELSE LET ty == ReadUnsigned(rest)
         IN  IF ty.kind # "ok" THEN ty
         ELSE LET idx == ReadUnsigned(ty.rest)
         IN  IF idx.kind # "ok" THEN idx
         ELSE ParseExports(idx.rest, k - 1,
                  Append(acc, [name |-> nm, ty |-> ty.val, idx |-> idx.val]))

\* Module::parse_export_section: no index is checked against the functions
parse_export_section(c) ==
    LET section_len == ReadUnsigned(c)
    IN  IF section_len.kind # "ok" THEN section_len
    ELSE LET num_exports == ReadUnsigned(section_len.rest)
    IN  IF num_exports.kind # "ok" THEN num_exports
    ELSE ParseExports(num_exports.rest, num_exports.val, <<>>)

\* the loop over the local groups of one code entry
RECURSIVE ParseLocals(_, _, _)
ParseLocals(c, k, acc) ==
    IF k = 0 THEN Ok(acc, c)
    ELSE LET cnt == ReadUnsigned(c)
         IN  IF cnt.kind # "ok" THEN cnt
         ELSE LET val == parse_val(cnt.rest)
         IN  IF val.kind # "ok" THEN val
         ELSE ParseLocals(val.rest, k - 1, acc \o Repeat(val.val, cnt.val))

\* the bytes that follow the declared payload of a section whose length
\* prefix starts at c (history only: what §6 of the format calls the next
\* section)
DeclaredEnd(c) ==
    LET section_len == ReadUnsigned(c)
    IN  IF section_len.kind # "ok" THEN <<>>
        ELSE Drop(section_len.rest, section_len.val)

---------------------------------------------------------------------------
(* Module::from_file, one step per check and per section; the code section  *)
(* one step per entry and per opcode                                        *)

DecodeFails(r) ==
    /\ pc' = "decode_failed"
    /\ failure' = Failure(r)

\* module.rs 76-81
CheckMagic ==
    /\ pc = "magic"
    /\ IF Take(contents, 4) # MAGIC
       THEN /\ DecodeFails(Err("wrong magic"))
            /\ UNCHANGED contents
       ELSE /\ pc' = "version"
            /\ contents' = Drop(contents, 4)
            /\ UNCHANGED failure
    /\ UNCHANGED <<overflow_checks, funcs, exports, decVars, execVars>>

\* module.rs 85-93
CheckVersion ==
    /\ pc = "version"
    /\ IF Take(contents, 4) # VERSION
       THEN /\ DecodeFails(Err("wrong version"))
            /\ UNCHANGED <<contents, section_end>>
       ELSE /\ pc' = "section"
            /\ contents' = Drop(contents, 4)
            /\ section_end' = Drop(contents, 4)
            /\ UNCHANGED failure
    /\ UNCHANGED <<overflow_checks, funcs, exports, func_types, codeVars, execVars>>

\* module.rs 97-99 and 128: no byte left, Ok(module)
EndOfStream ==
    /\ pc = "section"
    /\ contents = <<>>
    /\ pc' = "decoded"
    /\ UNCHANGED <<overflow_checks, contents, failure, funcs, exports, decVars, execVars>>

\* module.rs 103-106
TypeSection ==
    /\ pc = "section"
    /\ contents # <<>>
    /\ Head(contents) = 1
    /\ LET r == parse_type_section(Tail(contents))
       IN  IF r.kind = "ok"
           THEN /\ func_types' = r.val
                /\ contents' = r.rest
                /\ section_end' = DeclaredEnd(Tail(contents))
                /\ UNCHANGED <<pc, failure>>
           ELSE /\ DecodeFails(r)
                /\ UNCHANGED <<func_types, contents, section_end>>
    /\ UNCHANGED <<overflow_checks, funcs, exports, codeVars, execVars>>

\* module.rs 107-110
FunctionSection ==
    /\ pc = "section"
    /\ contents # <<>>
    /\ Head(contents) = 3
    /\ LET r == parse_function_section(Tail(contents), func_types)
       IN  IF r.kind = "ok"
           THEN /\ funcs' = r.val
                /\ contents' = r.rest
                /\ section_end' = DeclaredEnd(Tail(contents))
                /\ UNCHANGED <<pc, failure>>
           ELSE /\ DecodeFails(r)
                /\ UNCHANGED <<funcs, contents, section_end>>
    /\ UNCHANGED <<overflow_checks, func_types, exports, codeVars, execVars>>

\* module.rs 111-114
ExportSection ==
    /\ pc = "section"
    /\ contents # <<>>
    /\ Head(contents) = 7
    /\ LET r == parse_export_section(Tail(contents))
       IN  IF r.kind = "ok"
           THEN /\ exports' = r.val
                /\ contents' = r.rest
                /\ section_end' = DeclaredEnd(Tail(contents))
                /\ UNCHANGED <<pc, failure>>
           ELSE /\ DecodeFails(r)
                /\ UNCHANGED <<exports, contents, section_end>>
    /\ UNCHANGED <<overflow_checks, func_types, funcs, codeVars, execVars>>

\* module.rs 117-124: any other id; take(section_len) copies what is there
UnknownSection ==
    /\ pc = "section"
    /\ contents # <<>>
    /\ Head(contents) \notin {1, 3, 7, 10}
    /\ LET section_len == ReadUnsigned(Tail(contents))
       IN  IF section_len.kind = "ok"
           THEN /\ contents' = Drop(section_len.rest, section_len.val)
                /\ section_end' = DeclaredEnd(Tail(contents))
                /\ UNCHANGED <<pc, failure>>
           ELSE /\ DecodeFails(section_len)
                /\ UNCHANGED <<contents, section_end>>
    /\ UNCHANGED <<overflow_checks, func_types, funcs, exports, codeVars, execVars>>

\* module.rs 115 and 212-214: the head of parse_code_section
CodeSection ==
    /\ pc = "section"
    /\ contents # <<>>
    /\ Head(contents) = 10
    /\ LET section_len == ReadUnsigned(Tail(contents))
           cnt == ReadUnsigned(section_len.rest)
       IN  IF section_len.kind # "ok"
           THEN /\ DecodeFails(section_len)
                /\ UNCHANGED <<contents, section_end, n, i>>
           ELSE IF cnt.kind # "ok"
           THEN /\ DecodeFails(cnt)
                /\ UNCHANGED <<contents, section_end, n, i>>
           ELSE /\ pc' = "code_entry"
                /\ n' = cnt.val
                /\ i' = 0
                /\ contents' = cnt.rest
                /\ section_end' = DeclaredEnd(Tail(contents))
                /\ UNCHANGED failure
    /\ UNCHANGED <<overflow_checks, func_types, funcs, exports, entry, b, code,
                   result, execVars>>

\* module.rs 215 and 239: the loop `for i in 0..n` is over, Ok(())
CodeSectionEnd ==
    /\ pc = "code_entry"
    /\ i >= n
    /\ pc' = "section"
    /\ UNCHANGED <<overflow_checks, contents, failure, funcs, exports, decVars, execVars>>

\* module.rs 216-234 and 236: one entry up to the call of parse_instructions;
\* b is a copy, so the cursor is already past it (into_inner, line 236).
\* `func_len - num_locals - 1` is u64: below zero it panics with overflow
\* checks and wraps to a length beyond any slice without them.
parse_code_entry(c, fs, idx, checks) ==
    IF idx >= Len(fs) THEN Panic("unwrap on None: module.funcs.get_mut(i)")
    ELSE LET func_len == ReadUnsigned(c)
    IN  IF func_len.kind # "ok" THEN func_len
    ELSE LET num_locals == ReadUnsigned(func_len.rest)
    IN  IF num_locals.kind # "ok" THEN num_locals
    ELSE LET er == (func_len.val - num_locals.val) - 1
    IN  IF er < 0 /\ checks THEN Panic("attempt to subtract with overflow")
    ELSE LET ls == ParseLocals(num_locals.rest, num_locals.val, <<>>)
    IN  IF ls.kind # "ok" THEN ls
    ELSE LET limit == IF er < 0 THEN Len(ls.rest) ELSE er
    IN  Ok([locals     |-> ls.val,
            b          |-> Take(ls.rest, limit),
            func_len   |-> func_len.val,
            num_locals |-> num_locals.val,
            body_start |-> func_len.rest,
            locals_end |-> ls.rest],
           Drop(ls.rest, limit))

CodeEntry ==
    /\ pc = "code_entry"
    /\ i < n
    /\ LET r == parse_code_entry(contents, funcs, i, overflow_checks)
       IN  IF r.kind # "ok"
           THEN /\ DecodeFails(r)
                /\ UNCHANGED <<contents, funcs, entry, b, code, result>>
           ELSE /\ pc' = "instr"
                /\ funcs' = [funcs EXCEPT ![i + 1].locals = r.val.locals]
                /\ entry' = [func_len   |-> r.val.func_len,
                             num_locals |-> r.val.num_locals,
                             body_start |-> r.val.body_start,
                             locals_end |-> r.val.locals_end]
                /\ b' = r.val.b
                /\ code' = r.val.b
                /\ result' = <<>>
                /\ contents' = r.rest
                /\ UNCHANGED failure
    /\ UNCHANGED <<overflow_checks, func_types, exports, section_end, n, i, execVars>>

\* the opcodes parse_instructions has an arm for (module.rs 267-282)
KnownOpcodes == {0, 32, 40, 68, 106, 108, 16, 128, 11}

instrFrame ==
    UNCHANGED <<overflow_checks, contents, func_types, funcs, exports,
                section_end, n, i, entry, b, execVars>>

PushInstr(ins, rest) ==
    /\ result' = Append(result, ins)
    /\ code' = rest
    /\ UNCHANGED <<pc, failure>>

\* an opcode with one varint immediate, read by `read`
PushWithImmediate(op, r) ==
    IF r.kind = "ok"
    THEN PushInstr(<<op, r.val>>, r.rest)
    ELSE /\ DecodeFails(r)
         /\ UNCHANGED <<result, code>>

AtOpcode(op) ==
    /\ pc = "instr"
    /\ code # <<>>
    /\ Head(code) = op

\* module.rs 267: 0x00 => continue
DecodeNop ==
    /\ AtOpcode(0)
    /\ code' = Tail(code)
    /\ UNCHANGED <<pc, failure, result>>
    /\ instrFrame

\* module.rs 268 (`as u32` keeps every index this model can hold)
DecodeLocalGet ==
    /\ AtOpcode(32)
    /\ PushWithImmediate("LocalGet", ReadUnsigned(Tail(code)))
    /\ instrFrame

\* module.rs 269 (`as i32` keeps every offset this model can hold)
DecodeLoadI32 ==
    /\ AtOpcode(40)
    /\ PushWithImmediate("LoadI32", ReadSigned(Tail(code)))
    /\ instrFrame

\* module.rs 270-276: copy_to_slice panics when fewer than 8 bytes are left;
\* the f64 is kept as its 8 little-endian bytes
DecodeConstF64 ==
    /\ AtOpcode(68)
    /\ IF Len(Tail(code)) < 8
       THEN /\ DecodeFails(Panic("copy_to_slice: fewer than 8 bytes left"))
            /\ UNCHANGED <<result, code>>
       ELSE PushInstr(<<"ConstF64">> \o Take(Tail(code), 8), Drop(Tail(code), 8))
    /\ instrFrame

\* module.rs 278
DecodeI32Add ==
    /\ AtOpcode(106)
    /\ PushInstr(<<"I32Add">>, Tail(code))
    /\ instrFrame

\* module.rs 279
DecodeI32Mul ==
    /\ AtOpcode(108)
    /\ PushInstr(<<"I32Mul">>, Tail(code))
    /\ instrFrame

\* module.rs 280
DecodeCall ==
    /\ AtOpcode(16)
    /\ PushWithImmediate("Call", ReadUnsigned(Tail(code)))
    /\ instrFrame

\* module.rs 281
DecodeDivI32U ==
    /\ AtOpcode(128)
    /\ PushInstr(<<"DivI32U">>, Tail(code))
    /\ instrFrame

\* module.rs 282 and 290: End is pushed and the loop goes on
DecodeEnd ==
    /\ AtOpcode(11)
    /\ PushInstr(<<"End">>, Tail(code))
    /\ instrFrame

\* module.rs 284-287: any other opcode => continue
DecodeUnknown ==
    /\ pc = "instr"
    /\ code # <<>>
    /\ Head(code) \notin KnownOpcodes
    /\ code' = Tail(code)
    /\ UNCHANGED <<pc, failure, result>>
    /\ instrFrame

\* module.rs 261-263, 293 and 235-236: no byte left, Ok(result) becomes
\* f.body and the loop over the entries goes on
InstrsDone ==
    /\ pc = "instr"
    /\ code = <<>>
    /\ funcs' = [funcs EXCEPT ![i + 1].body = result]
    /\ i' = i + 1
    /\ pc' = "code_entry"
    /\ UNCHANGED <<overflow_checks, contents, failure, func_types, exports,
                   section_end, n, entry, b, code, result, execVars>>

---------------------------------------------------------------------------
(* Instance::new and Exports::get_function (instance.rs) *)

\* instance.rs 13-20: the module's exports and functions move into Exports
NewInstance ==
    /\ pc = "decoded"
    /\ pc' = "instance"
    /\ UNCHANGED <<overflow_checks, contents, failure, funcs, exports, decVars, execVars>>

None      == [found |-> FALSE, idx |-> 0]
Some(idx) == [found |-> TRUE, idx |-> idx]

\* a lookup loop without its `break`: every later match overwrites idx
RECURSIVE FindExportNoBreak(_, _)
FindExportNoBreak(es, nm) ==
    IF es = <<>> THEN None
    ELSE LET later == FindExportNoBreak(Tail(es), nm)
         IN  IF later.found THEN later
             ELSE IF Head(es).name = nm THEN Some(Head(es).idx)
             ELSE None

\* instance.rs 30-36: the index of the first export with that name
RECURSIVE FindExport(_, _)
FindExport(es, nm) ==
    IF es = <<>> THEN None
    ELSE IF Head(es).name = nm THEN Some(Head(es).idx)
    ELSE FindExport(Tail(es), nm)

\* instance.rs 29-46
get_function(es, fs, nm) ==
    LET idx == FindExport(es, nm)
    IN  IF idx.found
        THEN IF idx.idx < Len(fs)
             THEN Ok(fs[idx.idx + 1].body, <<>>)
             ELSE Panic("unwrap on None: self.functions.get(idx)")
        ELSE Err("cannot find function")

---------------------------------------------------------------------------
(* Function::call (instance.rs), one step per instruction.  A Value is     *)
(* always I32(n) and is modelled by n.  The match of call has arms for    *)
(* LocalGet, I32Add, I32Mul and End only: a body that holds LoadI32, Call, *)
(* DivI32U or ConstF64 has no step here once call reaches that            *)
(* instruction.                                                           *)

\* instance.rs 75-80: both pops are made, then the match; `left + right`
\* panics on overflow with overflow checks and wraps without them
i32_add(st, checks) ==
    IF Len(st) < 2 THEN Err("wrong types for i32_add")
    ELSE LET left  == st[Len(st)]
             right == st[Len(st) - 1]
         IN  IF AddOverflows(left, right) /\ checks
             THEN Panic("attempt to add with overflow")
             ELSE Ok(WrappingAdd(left, right), SubSeq(st, 1, Len(st) - 2))

\* instance.rs 82-89
i32_mul(st) ==
    IF Len(st) < 2 THEN Err("wrong types for i32_add")
    ELSE LET left  == st[Len(st)]
             right == st[Len(st) - 1]
         IN  Ok(SaturatingMul(left, right), SubSeq(st, 1, Len(st) - 2))

CallFails(r) ==
    /\ pc' = "call_failed"
    /\ failure' = Failure(r)

execFrame ==
    UNCHANGED <<overflow_checks, contents, funcs, exports, decVars, name, body,
                locals, retval>>

AtInstr(op) ==
    /\ pc = "exec"
    /\ ip <= Len(body)
    /\ body[ip][1] = op

\* instance.rs 59: locals[n] panics when n is out of bounds
ExecLocalGet ==
    /\ AtInstr("LocalGet")
    /\ IF body[ip][2] >= Len(locals)
       THEN /\ CallFails(Panic("index out of bounds: locals[n]"))
            /\ UNCHANGED <<stack, ip>>
       ELSE /\ stack' = Append(stack, locals[body[ip][2] + 1])
            /\ ip' = ip + 1
            /\ UNCHANGED <<pc, failure>>
    /\ execFrame

\* instance.rs 60-63
ExecI32Add ==
    /\ AtInstr("I32Add")
    /\ LET r == i32_add(stack, overflow_checks)
       IN  IF r.kind = "ok"
           THEN /\ stack' = Append(r.rest, r.val)
                /\ ip' = ip + 1
                /\ UNCHANGED <<pc, failure>>
           ELSE /\ CallFails(r)
                /\ UNCHANGED <<stack, ip>>
    /\ execFrame

\* instance.rs 64-67
ExecI32Mul ==
    /\ AtInstr("I32Mul")
    /\ LET r == i32_mul(stack)
       IN  IF r.kind = "ok"
           THEN /\ stack' = Append(r.rest, r.val)
                /\ ip' = ip + 1
                /\ UNCHANGED <<pc, failure>>
           ELSE /\ CallFails(r)
                /\ UNCHANGED <<stack, ip>>
    /\ execFrame

\* instance.rs 68: End => break
ExecEnd ==
    /\ AtInstr("End")
    /\ pc' = "ret"
    /\ UNCHANGED <<failure, stack, ip>>
    /\ execFrame

\* instance.rs 57: the loop over the body is over
BodyExhausted ==
    /\ pc = "exec"
    /\ ip > Len(body)
    /\ pc' = "ret"
    /\ UNCHANGED <<failure, stack, ip>>
    /\ execFrame

\* instance.rs 72: Ok(stack.pop().unwrap())
Return ==
    /\ pc = "ret"
    /\ IF stack = <<>>
       THEN /\ CallFails(Panic("unwrap on None: stack.pop()"))
            /\ UNCHANGED <<stack, retval>>
       ELSE /\ retval' = stack[Len(stack)]
            /\ stack' = SubSeq(stack, 1, Len(stack) - 1)
            /\ pc' = "returned"
            /\ UNCHANGED failure
    /\ UNCHANGED <<overflow_checks, contents, funcs, exports, decVars, name, body,
                   locals, ip>>

---------------------------------------------------------------------------
(* The inputs: module byte streams, export names, argument lists *)

RECURSIVE Concat(_)
Concat(ss) == IF ss = <<>> THEN <<>> ELSE Head(ss) \o Concat(Tail(ss))

\* encoders of the binary format (spec §6), used to write the streams
Section(id, payload) == <<id, Len(payload)>> \o payload
Vec(items)           == <<Len(items)>> \o Concat(items)
CodeBody(localDecls, instrBytes) ==
    <<Len(localDecls) + Len(instrBytes)>> \o localDecls \o instrBytes
ExportEntry(nm, idx) == <<Len(nm)>> \o nm \o <<0, idx>>

Header == MAGIC \o VERSION

NameAdd == <<97, 100, 100>>
NameMul == <<109, 117, 108>>
NameSub == <<115, 117, 98>>
NamePool == {NameAdd, NameMul, NameSub}

\* (i32, i32) -> i32
TypeSec  == Section(1, Vec(<< <<96, 2, 127, 127, 1, 127>> >>))
FuncSec  == Section(3, Vec(<< <<0>>, <<0>> >>))
ExpSec   == Section(7, Vec(<<ExportEntry(NameAdd, 0), ExportEntry(NameMul, 1)>>))

AddBody == CodeBody(<<0>>, <<32, 0, 32, 1, 106, 11>>)
MulBody == CodeBody(<<0>>, <<32, 0, 32, 1, 108, 11>>)

BodyPool ==
    { AddBody, MulBody,
      CodeBody(<<0>>, <<11>>),                          \* End alone
      CodeBody(<<0>>, <<>>),                            \* no instruction at all
      CodeBody(<<0>>, <<32, 5, 11>>),                   \* LocalGet(5)
      CodeBody(<<0>>, <<32, 0, 106, 11>>),              \* one operand for I32Add
      CodeBody(<<0>>, <<32, 0, 32, 1, 32, 1, 106, 11>>),\* a value left under the result
      CodeBody(<<1, 2, 127>>, <<32, 0, 32, 1, 106, 11>>),     \* one group of two i32
      CodeBody(<<2, 1, 127, 1, 126>>, <<32, 0, 11>>),   \* two groups
      CodeBody(<<1, 1, 5>>, <<11>>),                    \* unknown type tag of a local
      CodeBody(<<0>>, <<32, 0, 26, 11>>),               \* 0x1A: no arm
      CodeBody(<<0>>, <<32, 0, 11, 106>>),              \* a byte after End
      CodeBody(<<0>>, <<0, 32, 0, 11>>),                \* no-op first
      CodeBody(<<0>>, <<40, 127, 68, 0, 0, 0, 0, 0, 0, 240, 63, 16, 0, 128, 11>>),
      CodeBody(<<0>>, <<68, 0, 0, 11>>),                \* ConstF64 cut short
      CodeBody(<<0>>, <<32, 128, 1, 11>>),              \* LocalGet(128), two-byte varint
      CodeBody(<<0>>, <<32>>),                          \* LocalGet without its index
      <<0>> }                                           \* body length 0

ExportSecPool ==
    { Section(7, Vec(<<ExportEntry(NameAdd, 0), ExportEntry(NameAdd, 1)>>)),
      Section(7, Vec(<<ExportEntry(NameAdd, 1), ExportEntry(NameAdd, 0)>>)),
      Section(7, Vec(<<ExportEntry(NameMul, 1), ExportEntry(NameAdd, 0),
                       ExportEntry(NameMul, 0)>>)),
      Section(7, Vec(<<ExportEntry(NameAdd, 5)>>)),
      Section(7, Vec(<<ExportEntry(NameAdd, 0), ExportEntry(NameMul, 2)>>)),
      Section(7, Vec(<<ExportEntry(<<255>>, 0)>>)),
      Section(7, Vec(<<>>)),
      <<7, 4, 1, 9, 97, 100>> }                         \* name longer than the stream

\* streams whose framing is off
OddStreams ==
    { <<>>, <<0, 97, 115>>, <<0, 97, 115, 110, 1, 0, 0, 0>>,
      <<0, 97, 115, 109, 2, 0, 0, 0>>,
      Header,
      \* a custom section between the type and the function section
      Header \o TypeSec \o Section(0, <<4, 110, 97, 109, 101>>) \o FuncSec \o ExpSec
          \o Section(10, Vec(<<AddBody, MulBody>>)),
      \* a section with an id this decoder does not know, declared longer than the stream
      Header \o TypeSec \o <<5, 9, 0>>,
      Header \o <<12>>,
      \* a type section declared one byte longer than its entries, and the padding
      Header \o <<1, 8, 1, 96, 2, 127, 127, 1, 127, 0>> \o FuncSec \o ExpSec
          \o Section(10, Vec(<<AddBody, MulBody>>)),
      \* a type section declared shorter than its entries
      Header \o <<1, 1, 1, 96, 2, 127, 127, 1, 127>> \o FuncSec \o ExpSec
          \o Section(10, Vec(<<AddBody, MulBody>>)),
      \* an export section declared longer than its entries
      Header \o TypeSec \o FuncSec \o <<7, 9, 1, 3, 97, 100, 100, 0, 0, 0, 0>>
          \o Section(10, Vec(<<AddBody, MulBody>>)),
      \* a code section declared shorter than its entries
      Header \o TypeSec \o FuncSec \o ExpSec \o <<10, 2, 2>> \o AddBody \o MulBody,
      \* type entries that do not start with 0x60, are cut short, use an unknown tag
      Header \o <<1, 2, 1, 97>>,
      Header \o <<1, 1, 1>>,
      Header \o <<1, 3, 1, 96, 1>>,
      Header \o <<1, 4, 1, 96, 1, 5>>,
      Header \o <<1>>,
      \* a function of a type that is not there
      Header \o TypeSec \o Section(3, Vec(<< <<1>> >>)),
      Header \o TypeSec \o <<3, 2, 1>>,
      \* more code entries than functions
      Header \o TypeSec \o Section(3, Vec(<< <<0>> >>)) \o ExpSec
          \o Section(10, Vec(<<AddBody, MulBody>>)),
      \* the code section before the function section
      Header \o TypeSec \o Section(10, Vec(<<AddBody>>)) \o FuncSec,
      \* fewer code entries than functions
      Header \o TypeSec \o FuncSec \o ExpSec \o Section(10, Vec(<<AddBody>>)),
      Header \o TypeSec \o FuncSec \o ExpSec \o <<10, 1>>,
      Header \o TypeSec \o FuncSec \o ExpSec \o <<10>> }

Streams ==
    { Header \o TypeSec \o FuncSec \o ExpSec \o Section(10, Vec(<<b1, b2>>))
        : b1 \in BodyPool, b2 \in {MulBody, AddBody} }
    \cup { Header \o TypeSec \o FuncSec \o es \o Section(10, Vec(<<AddBody, MulBody>>))
        : es \in ExportSecPool }
    \cup OddStreams

ValuePool == {MinI32, -1, 1, 12, 42, 65536, MaxI32}

ArgLists == UNION { [1..k -> ValuePool] : k \in 0..MaxArgs }

---------------------------------------------------------------------------
(* The program *)

\* main.rs 14: exports.get_function(name)
GetFunction ==
    /\ pc = "instance"
    /\ \E nm \in NamePool :
          /\ name' = nm
          /\ LET r == get_function(exports, funcs, nm)
             IN  IF r.kind = "ok"
                 THEN /\ body' = r.val
                      /\ pc' = "function"
                      /\ UNCHANGED failure
                 ELSE /\ pc' = "resolve_failed"
                      /\ failure' = Failure(r)
                      /\ UNCHANGED body
    /\ UNCHANGED <<overflow_checks, contents, funcs, exports, decVars, locals,
                   stack, ip, retval>>

\* main.rs 15 and instance.rs 54-55: call(locals) starts with an empty stack
Call ==
    /\ pc = "function"
    /\ \E args \in ArgLists : locals' = args
    /\ stack' = <<>>
    /\ ip' = 1
    /\ pc' = "exec"
    /\ UNCHANGED <<overflow_checks, contents, failure, funcs, exports, decVars,
                   name, body, retval>>

Init ==
    /\ overflow_checks \in BOOLEAN
    /\ contents \in Streams
    /\ pc = "magic"
    /\ failure = NoFailure
    /\ func_types = <<>>
    /\ funcs = <<>>
    /\ exports = <<>>
    /\ section_end = <<>>
    /\ n = 0
    /\ i = 0
    /\ entry = [func_len |-> 0, num_locals |-> 0, body_start |-> <<>>,
                locals_end |-> <<>>]
    /\ b = <<>>
    /\ code = <<>>
    /\ result = <<>>
    /\ name = <<>>
    /\ body = <<>>
    /\ locals = <<>>
    /\ stack = <<>>
    /\ ip = 1
    /\ retval = 0

Next ==
    \/ CheckMagic
    \/ CheckVersion
    \/ EndOfStream
    \/ TypeSection
    \/ FunctionSection
    \/ ExportSection
    \/ UnknownSection
    \/ CodeSection
    \/ CodeEntry
    \/ CodeSectionEnd
    \/ DecodeNop
    \/ DecodeLocalGet
    \/ DecodeLoadI32
    \/ DecodeConstF64
    \/ DecodeI32Add
    \/ DecodeI32Mul
    \/ DecodeCall
    \/ DecodeDivI32U
    \/ DecodeEnd
    \/ DecodeUnknown
    \/ InstrsDone
    \/ NewInstance
    \/ GetFunction
    \/ Call
    \/ ExecLocalGet
    \/ ExecI32Add
    \/ ExecI32Mul
    \/ ExecEnd
    \/ BodyExhausted
    \/ Return

Spec == Init /\ [][Next]_vars

---------------------------------------------------------------------------
(* The claims *)

\* LocalGet(0), LocalGet(1), I32Add, End
AddFunction == << <<"LocalGet", 0>>, <<"LocalGet", 1>>, <<"I32Add">>, <<"End">> >>

CallOver == pc \in {"returned", "call_failed"}

\* C1: a call of LocalGet(0), LocalGet(1), I32Add, End with arguments a and b
\* ends by returning a + b wrapped to 32 bits, whatever a and b are: it
\* never fails or crashes on overflow.
C1_AddWraps ==
    (CallOver /\ body = AddFunction /\ Len(locals) >= 2)
        => /\ pc = "returned"
           /\ failure = NoFailure
           /\ retval = WrappingAdd(locals[1], locals[2])

\* C1, the case without overflow: [12, 42] has returned 54
C1_Returns54 ==
    /\ pc = "returned"
    /\ body = AddFunction
    /\ locals = <<12, 42>>
    /\ retval = 54

\* C2: a step of I32Mul with two operands on the stack replaces them by
\* their product wrapped to 32 bits; the product is never clamped.
C2_MulWraps ==
    [][(AtInstr("I32Mul") /\ Len(stack) >= 2)
         => /\ pc' = "exec"
            /\ stack' = Append(SubSeq(stack, 1, Len(stack) - 2),
                               WrappingMul(stack[Len(stack)], stack[Len(stack) - 1]))]_vars

\* C3: when call reaches End or the end of the body with an empty operand
\* stack, it returns a failure (MissingResult) as an error value: the call
\* fails with an Err, it does not crash.
C3_MissingResultIsErr ==
    [][(pc = "ret" /\ stack = <<>>)
         => /\ pc' = "call_failed"
            /\ failure'.kind = "err"]_vars

\* C4: LocalGet(n) with n not less than the number of locals ends the call
\* with a failure returned as an error value, not a crash; with n in range
\* it pushes locals[n] and leaves the locals as they are.
C4_LocalGetChecked ==
    [][AtInstr("LocalGet")
         => IF body[ip][2] >= Len(locals)
            THEN /\ pc' = "call_failed"
                 /\ failure'.kind = "err"
            ELSE /\ pc' = "exec"
                 /\ stack' = Append(stack, locals[body[ip][2] + 1])
                 /\ locals' = locals]_vars

\* get_function has been called and has returned (a function or a failure)
Resolved == pc \in {"function", "resolve_failed"}

\* the positions of the exports that carry the name asked for
Matches == {k \in 1..Len(exports) : exports[k].name = name}

FirstMatch == CHOOSE k \in Matches : \A j \in Matches : k <= j

NotFound == [kind |-> "err", msg |-> "cannot find function"]

\* C5: when no export has the name, get_function fails with the
\* export-not-found error and returns no function.  When some export has
\* it, get_function never reports not-found, the function it returns is the
\* body of the function indexed by the first such export in declaration
\* order (also when later exports carry the name with another index), and
\* it returns one whenever that index denotes a function.
C5_FirstMatchWins ==
    Resolved =>
        IF Matches = {}
        THEN pc = "resolve_failed" /\ failure = NotFound
        ELSE /\ failure # NotFound
             /\ pc = "function"
                    => /\ exports[FirstMatch].idx < Len(funcs)
                       /\ body = funcs[exports[FirstMatch].idx + 1].body
             /\ exports[FirstMatch].idx < Len(funcs) => pc = "function"

\* C5's case: the name is exported twice, with indices of functions whose
\* bodies differ, and the first export's function has been returned
C5_DuplicateNameResolved ==
    /\ pc = "function"
    /\ \E k \in Matches :
          /\ k > FirstMatch
          /\ exports[k].idx < Len(funcs)
          /\ exports[k].idx # exports[FirstMatch].idx
          /\ funcs[exports[k].idx + 1].body # body
    /\ body = funcs[exports[FirstMatch].idx + 1].body

\* C6: an export whose index is not less than the number of functions is
\* accepted by decoding, and resolving its name fails with an error value:
\* get_function does not crash on it and returns no function for it.
C6_BadIndexIsErr ==
    (Resolved /\ Matches # {} /\ exports[FirstMatch].idx >= Len(funcs))
        => /\ pc = "resolve_failed"
           /\ failure.kind = "err"

\* C6, the first half: decoding has ended with Ok(module) and an export of
\* the module points past the functions
C6_BadIndexDecoded ==
    /\ pc = "instance"
    /\ \E k \in 1..Len(exports) : exports[k].idx >= Len(funcs)

\* C7: whenever the decode loop is about to read a section id, the cursor is
\* at the byte that follows the declared payload of the section before
\* (after the header, at the first section).
C7_SectionFraming ==
    pc = "section" => contents = section_end

\* spec §6, "Opcodes in scope"
OpcodesInScope == {32, 40, 68, 106, 108, 16, 128, 11, 0}

\* C8: reading an opcode byte that is not in scope makes the decoding of
\* that body fail with an error (UnknownOpcode); the byte is not skipped.
C8_UnknownOpcodeFails ==
    [][(pc = "instr" /\ code # <<>> /\ Head(code) \notin OpcodesInScope)
         => /\ pc' = "decode_failed"
            /\ failure'.kind = "err"]_vars

\* the bytes of the local declarations of the entry: the group count and
\* every (repeat count, type tag) pair
LocalsHeaderLen == Len(entry.body_start) - Len(entry.locals_end)

\* the entry's declared length covers its local declarations and lies
\* within the stream
EntryWellFormed ==
    /\ entry.func_len >= LocalsHeaderLen
    /\ entry.func_len <= Len(entry.body_start)

\* the groups of the entry expanded in order
LocalsExpanded ==
    LET num_locals == ReadUnsigned(entry.body_start)
    IN  ParseLocals(num_locals.rest, num_locals.val, <<>>).val

\* C9: for a code entry of declared length L, the bytes decoded as
\* instructions are the L - (length of the local declarations) bytes that
\* follow the local declarations, the entry consumes exactly L bytes, and
\* the function's locals are the groups expanded in order.
C9_BodyRange ==
    (pc = "instr" /\ EntryWellFormed)
        => /\ b = Take(entry.locals_end, entry.func_len - LocalsHeaderLen)
           /\ contents = Drop(entry.body_start, entry.func_len)
           /\ funcs[i + 1].locals = LocalsExpanded

EndsOnce(instrs) ==
    \A k \in 1..Len(instrs) : instrs[k][1] = "End" => k = Len(instrs)

\* C10: a decoded instruction sequence holds at most one End, as its last
\* element: nothing is decoded from the bytes after the first End.
C10_StopsAtEnd ==
    /\ EndsOnce(result)
    /\ \A f \in 1..Len(funcs) : EndsOnce(funcs[f].body)

=============================================================================
